---------------------------- MODULE Spec2Model ----------------------------
(***************************************************************************)
(* Warm-up weight optimisation of tbweightcalc                             *)
(* (src/tbweightcalc/exercise_set.py, src/tbweightcalc/exercise_cluster.py)*)
(*                                                                         *)
(* Weights are Python floats in pounds.  Every weight the model handles    *)
(* lies on the half-pound grid, and is written here as an integer number   *)
(* of quarter pounds (Lb(45) = 180, a 2.5 lb plate = 10), so that the      *)
(* products by 0.25, 0.5 and 2.0 and the halving of (total - bar) are      *)
(* exact, as they are in binary floating point.                            *)
(***************************************************************************)
EXTENDS Integers, Sequences, FiniteSets, TLC

VARIABLES
    pc,                       \* position of the running call
    bar_weight,               \* argument bar_weight
    available_plates,         \* argument available_plates
    current_weight,           \* round_up_to_valid_progression: current_weight
    next_weight,              \* round_up_to_valid_progression: next_weight
    max_increase,             \* round_up_to_valid_progression: max_increase
    total_weight,             \* get_plate_list, optimize_warmup_weight: total_weight
    plates_a,                 \* plates_are_subset: the argument warmup_plates
    plates_b,                 \* plates_are_subset: the argument next_plates
    threshold,                \* optimize_warmup_weight: threshold
    next_total_weight,        \* optimize_warmup_weight: next_total_weight, {} for None
    big_plate_min,            \* optimize_warmup_weight: big_plate_min
    big_plate_slack,          \* optimize_warmup_weight: big_plate_slack
    warmup_weights,           \* ensure_linear_warmup_progression: the caller's list
    working_weight,           \* ensure_linear_warmup_progression: working_weight
    max_increase_per_warmup,  \* ensure_linear_warmup_progression: max_increase_per_warmup
    all_weights,              \* local all_weights
    iteration,                \* local iteration
    changed,                  \* local changed
    i,                        \* loop index of the backward for, 0-based as in the code
    ret,                      \* the returned value
    exercise,                 \* ExerciseCluster.exercise
    week_arg,                 \* the value handed to the week setter
    week,                     \* ExerciseCluster.week as stored
    week_multiplier,          \* ExerciseCluster.week_multiplier, in percent
    label,                    \* ExerciseCluster.label, the number before "%"
    oneRepMax,                \* ExerciseCluster.oneRepMax, in pounds
    sets,                     \* the weights of ExerciseCluster.sets, in order
    self_bar,                 \* ExerciseSet.bar
    self_weight,              \* ExerciseSet.weight
    corrected_weight,         \* calc_plate_breakdown: corrected_weight
    weight,                   \* calc_plate_breakdown: the local weight
    plate_count               \* calc_plate_breakdown: plate_count

\* the arguments of round_up_to_valid_progression
roundVars == <<current_weight, next_weight, max_increase>>

\* the arguments of get_plate_list and plates_are_subset
plateVars == <<total_weight, plates_a, plates_b>>

\* the fields of an ExerciseSet and the locals of calc_plate_breakdown
breakdownVars == <<self_bar, self_weight, corrected_weight, weight, plate_count>>

\* the keyword arguments of optimize_warmup_weight
optVars == <<threshold, next_total_weight, big_plate_min, big_plate_slack>>

\* the arguments of ensure_linear_warmup_progression
callVars == <<warmup_weights, working_weight, max_increase_per_warmup>>

\* the fields of an ExerciseCluster
clusterVars == <<exercise, week_arg, week, week_multiplier, label, oneRepMax, sets>>

vars == <<pc, bar_weight, available_plates, roundVars, plateVars, breakdownVars, optVars, callVars,
          all_weights, iteration, changed, i, ret, clusterVars>>

-----------------------------------------------------------------------------
(* Units and generic helpers *)

Lb(x) == 4 * x

Max(S) == CHOOSE x \in S : \A y \in S : y <= x

Min(S) == CHOOSE x \in S : \A y \in S : x <= y

RECURSIVE Sum(_)
Sum(s) == IF s = <<>> THEN 0 ELSE Head(s) + Sum(Tail(s))

Repeat(p, k) == [j \in 1..k |-> p]

\* s[k] with the code's 0-based index
At(s, k) == s[k + 1]

Count(s, p) == Cardinality({j \in 1..Len(s) : s[j] = p})

DefaultPlates == {Lb(45), Lb(35), Lb(25), Lb(15), Lb(10), Lb(5), 10}

-----------------------------------------------------------------------------
(* get_plate_list: the greedy per-side decomposition *)

\* mutant: `if remaining >= plate` in place of `while remaining >= plate`
RECURSIVE greedy_plates_once(_, _)
greedy_plates_once(remaining, plates) ==
    IF plates = {} THEN <<>>
    ELSE LET plate == Max(plates)
             k == IF remaining >= plate THEN 1 ELSE 0
         IN  Repeat(plate, k) \o greedy_plates_once(remaining - k * plate, plates \ {plate})

\* mutant: the plates are tried from the smallest (sorted without reverse=True)
RECURSIVE greedy_plates_ascending(_, _)
greedy_plates_ascending(remaining, plates) ==
    IF plates = {} THEN <<>>
    ELSE LET plate == Min(plates)
             k == IF remaining >= plate THEN remaining \div plate ELSE 0
         IN  Repeat(plate, k) \o greedy_plates_ascending(remaining - k * plate, plates \ {plate})

\* the for/while loops of get_plate_list over plates_sorted (descending):
\* remaining is the per-side load still to cover
RECURSIVE greedy_plates(_, _)
greedy_plates(remaining, plates) ==
    IF plates = {} THEN <<>>
    ELSE LET plate == Max(plates)
             k == IF remaining >= plate THEN remaining \div plate ELSE 0
         IN  Repeat(plate, k) \o greedy_plates(remaining - k * plate, plates \ {plate})

get_plate_list(total, bar, plates) ==
    IF total <= bar THEN <<>>
    ELSE greedy_plates((total - bar) \div 2, plates)

-----------------------------------------------------------------------------
(* plates_are_subset: multiset inclusion by counts *)

\* mutant: a plate of warmup_plates only has to occur in next_plates
plates_are_subset_any_count(warmup_plates, next_plates) ==
    \A j \in 1..Len(warmup_plates) : Count(next_plates, warmup_plates[j]) >= 1

plates_are_subset(warmup_plates, next_plates) ==
    \A j \in 1..Len(warmup_plates) :
        Count(next_plates, warmup_plates[j]) >= Count(warmup_plates, warmup_plates[j])

\* plate-additivity of two total weights, as the tests and the enforcer check it
PlateAdditive(a, b, bar, plates) ==
    plates_are_subset(get_plate_list(a, bar, plates), get_plate_list(b, bar, plates))

-----------------------------------------------------------------------------
(* round_up_to_valid_progression *)

\* next_plate_count as list(next_plate_count.items()): the distinct plates of
\* a plate list in order of first appearance, each with its count
RECURSIVE plate_items_of(_)
plate_items_of(plates_list) ==
    IF plates_list = <<>> THEN <<>>
    ELSE LET plate == Head(plates_list)
             rest == SelectSeq(plates_list, LAMBDA q : q # plate)
         IN  <<<<plate, Count(plates_list, plate)>>>> \o plate_items_of(rest)

\* the generator generate_subsets: every configuration using 0..max_count of
\* each plate, as a list of (plate, count) pairs with count > 0
RECURSIVE generate_subsets(_)
generate_subsets(plate_items) ==
    IF plate_items = <<>> THEN {<<>>}
    ELSE LET plate == plate_items[1][1]
             max_count == plate_items[1][2]
             rest == generate_subsets(Tail(plate_items))
         IN  {IF count > 0 THEN <<<<plate, count>>>> \o rest_subset ELSE rest_subset :
                 count \in 0..max_count, rest_subset \in rest}

\* subset_plates of a configuration: [plate] * count for each pair
RECURSIVE subset_plates_of(_)
subset_plates_of(subset_config) ==
    IF subset_config = <<>> THEN <<>>
    ELSE Repeat(subset_config[1][1], subset_config[1][2]) \o subset_plates_of(Tail(subset_config))

\* mutant: the plates of one side only are added to the bar
test_weight_one_side(subset_config, bar) == bar + Sum(subset_plates_of(subset_config))

\* test_weight = bar_weight + 2.0 * sum(subset_plates)
test_weight_of(subset_config, bar) == bar + 2 * Sum(subset_plates_of(subset_config))

\* the test weights of all sub-multisets of next_weight's plates
test_weights(nxt, bar, plates) ==
    {test_weight_of(c, bar) : c \in generate_subsets(plate_items_of(get_plate_list(nxt, bar, plates)))}

\* mutant: the subset test with its arguments exchanged
already_valid_reversed(cur, nxt, bar, plates) ==
    plates_are_subset(get_plate_list(nxt, bar, plates), get_plate_list(cur, bar, plates))

\* the early return: current is already a valid progression to next
already_valid(cur, nxt, bar, plates) ==
    plates_are_subset(get_plate_list(cur, bar, plates), get_plate_list(nxt, bar, plates))

\* mutant: the upward search without the max_increase bound
upward_candidates_unbounded(cur, nxt, bar, plates, maxinc) ==
    {t \in test_weights(nxt, bar, plates) : t >= cur /\ t < nxt}

\* the candidates of the first (upward) search
upward_candidates(cur, nxt, bar, plates, maxinc) ==
    {t \in test_weights(nxt, bar, plates) : t >= cur /\ t < nxt /\ t <= cur + maxinc}

\* mutant: the downward search without the 50% floor
downward_candidates_no_floor(cur, nxt, bar, plates) ==
    {t \in test_weights(nxt, bar, plates) : t < cur /\ t < nxt}

\* the candidates of the second (downward) search; allow_bar_only is
\* test_weight == bar_weight, and test_weight >= current_weight * 0.5 is 2t >= cur
downward_candidates(cur, nxt, bar, plates) ==
    {t \in test_weights(nxt, bar, plates) : t < cur /\ t < nxt /\ (2 * t >= cur \/ t = bar)}

\* mutant: the upward search keeps the largest diff
best_upward_largest(cur, nxt, bar, plates, maxinc) ==
    LET up == upward_candidates(cur, nxt, bar, plates, maxinc)
    IN  IF up = {} THEN {} ELSE {Max(up)}

\* best_weight of the first loop (smallest diff); {} stands for None
best_upward(cur, nxt, bar, plates, maxinc) ==
    LET up == upward_candidates(cur, nxt, bar, plates, maxinc)
    IN  IF up = {} THEN {} ELSE {Min(up)}

\* best_weight of the second loop (largest test_weight); {} stands for None
best_downward(cur, nxt, bar, plates) ==
    LET down == downward_candidates(cur, nxt, bar, plates)
    IN  IF down = {} THEN {} ELSE {Max(down)}

round_up_to_valid_progression(cur, nxt, bar, plates, maxinc) ==
    IF already_valid(cur, nxt, bar, plates) THEN cur
    ELSE LET up == best_upward(cur, nxt, bar, plates, maxinc)
             best_weight == IF up # {} THEN up ELSE best_downward(cur, nxt, bar, plates)
         IN  IF best_weight # {} THEN CHOOSE w \in best_weight : TRUE ELSE cur

-----------------------------------------------------------------------------
(* optimize_warmup_weight; the optional next_total_weight is a set, {} for None *)

\* `if next_total_weight and next_total_weight > bar_weight`: false for None and 0
has_next_above_bar(nxt, bar) == \E n \in nxt : n # 0 /\ n > bar

\* mutant: the smallest of big_candidates
next_big_plate_smallest(nxt, bar, plates, bpmin) ==
    LET big_candidates == {p \in plates : \E n \in nxt : p >= bpmin /\ p <= (n - bar) \div 2}
    IN  IF big_candidates = {} THEN {} ELSE {Min(big_candidates)}

\* next_big_plate: the largest plate >= big_plate_min and <= next_per_side;
\* {} stands for None
next_big_plate_of(nxt, bar, plates, bpmin) ==
    LET big_candidates == {p \in plates : \E n \in nxt : p >= bpmin /\ p <= (n - bar) \div 2}
    IN  IF big_candidates = {} THEN {} ELSE {Max(big_candidates)}

\* phase 1 returns: next_big_plate is truthy, per_side < next_big_plate and
\* gap <= big_plate_slack
preload_applies(per_side, big, slack) ==
    \E P \in big : P # 0 /\ per_side < P /\ P - per_side <= slack

\* mutant: `p - remainder < threshold`
clutter_candidate_strict(remainder, plates, thr) ==
    LET at_least == {p \in plates : p >= remainder}
    IN  IF at_least # {} /\ Min(at_least) - remainder < thr THEN {Min(at_least)} ELSE {}

\* candidate: the first plate p >= remainder of plates_sorted (ascending), kept
\* when p - remainder <= threshold; {} stands for None
clutter_candidate(remainder, plates, thr) ==
    LET at_least == {p \in plates : p >= remainder}
    IN  IF at_least # {} /\ Min(at_least) - remainder <= thr THEN {Min(at_least)} ELSE {}

\* phase 2: optimized_weight after the largest plates are peeled off
clutter_optimized(total, bar, plates, thr) ==
    LET per_side == (total - bar) \div 2
        largest == Max(plates)
        base_total == largest * (per_side \div largest)
        remainder == per_side - base_total
        candidate == IF remainder > 0 THEN clutter_candidate(remainder, plates, thr) ELSE {}
    IN  IF candidate # {}
        THEN bar + 2 * (base_total + CHOOSE p \in candidate : TRUE)
        ELSE total

\* phase 3: the rounder with max_increase=20.0, when next_total_weight is
\* truthy and above optimized_weight
progression_adjusted(optimized, nxt, bar, plates) ==
    IF \E n \in nxt : n # 0 /\ n > optimized
    THEN round_up_to_valid_progression(optimized, CHOOSE n \in nxt : TRUE, bar, plates, Lb(20))
    ELSE optimized

optimize_warmup_weight(total, bar, plates, thr, nxt, bpmin, slack) ==
    IF total <= bar THEN total
    ELSE LET per_side == (total - bar) \div 2
             big == IF has_next_above_bar(nxt, bar)
                    THEN next_big_plate_of(nxt, bar, plates, bpmin)
                    ELSE {}
         IN  IF preload_applies(per_side, big, slack)
             THEN round_up_to_valid_progression(bar + 2 * (CHOOSE P \in big : TRUE),
                                                CHOOSE n \in nxt : TRUE, bar, plates, 0)
             ELSE progression_adjusted(clutter_optimized(total, bar, plates, thr),
                                       nxt, bar, plates)

-----------------------------------------------------------------------------
(* ensure_linear_warmup_progression: the body of the backward for loop *)

max_iterations == 10

\* mutant: `current >= next_weight` in place of `current > next_weight`
needs_adjustment_or_equal(current, nxt, bar, plates) ==
    \/ ~plates_are_subset(get_plate_list(current, bar, plates), get_plate_list(nxt, bar, plates))
    \/ current >= nxt

\* mutant: `while iteration < max_iterations`
loop_ignores_changed(ch, it) == it < max_iterations

\* mutant: the loop is left after its first pass
loop_single_pass(ch, it) == ch /\ it < 1

\* while changed and iteration < max_iterations
loop_continues(ch, it) == ch /\ it < max_iterations

\* needs_adjustment: not a plate subset of next, or heavier than next
needs_adjustment(current, nxt, bar, plates) ==
    \/ ~plates_are_subset(get_plate_list(current, bar, plates), get_plate_list(nxt, bar, plates))
    \/ current > nxt

\* adjusted after the clamp or the call of the rounder
first_adjusted(current, nxt, bar, plates, maxinc) ==
    IF current > nxt THEN nxt
    ELSE round_up_to_valid_progression(current, nxt, bar, plates, maxinc)

\* adjusted after the bar-only fallback of the first warm-up
bar_only_adjusted(k, current, nxt, bar, plates, maxinc) ==
    LET adjusted == first_adjusted(current, nxt, bar, plates, maxinc)
    IN  IF adjusted = current /\ k = 0
           /\ plates_are_subset(get_plate_list(bar, bar, plates), get_plate_list(nxt, bar, plates))
        THEN bar
        ELSE adjusted

\* mutant: `adjusted < prev_weight` in place of `adjusted <= prev_weight`
needs_search_below_only(k, adjusted, prev, nxt, bar, plates) ==
    k > 0 /\ (adjusted < prev \/ ~PlateAdditive(adjusted, nxt, bar, plates))

\* the guard of the exhaustive search: i > 0 and
\* (adjusted <= prev_weight or not is_valid_progression)
needs_search(k, adjusted, prev, nxt, bar, plates) ==
    k > 0 /\ (adjusted <= prev \/ ~PlateAdditive(adjusted, nxt, bar, plates))

\* mutant: the search starts above the bar instead of above prev_weight
best_candidate_above_bar(prev, nxt, bar, plates) ==
    LET between == {t \in test_weights(nxt, bar, plates) : t > bar /\ t < nxt}
    IN  IF between = {} THEN {} ELSE {Min(between)}

\* best_candidate: the smallest test weight strictly between prev and next;
\* {} stands for None
best_candidate_of(prev, nxt, bar, plates) ==
    LET between == {t \in test_weights(nxt, bar, plates) : t > prev /\ t < nxt}
    IN  IF between = {} THEN {} ELSE {Min(between)}

\* `if best_candidate:` is false for None and for 0.0
searched_adjusted(current, prev, nxt, bar, plates) ==
    LET best_candidate == best_candidate_of(prev, nxt, bar, plates)
    IN  IF best_candidate # {} /\ best_candidate # {0}
        THEN CHOOSE w \in best_candidate : TRUE
        ELSE current

\* the elif branch: adjusted < prev_weight, reuse prev_weight when it is a
\* valid progression to next, else keep adjusted
backward_adjusted(adjusted, prev, nxt, bar, plates) ==
    IF plates_are_subset(get_plate_list(prev, bar, plates), get_plate_list(nxt, bar, plates))
    THEN prev
    ELSE adjusted

\* mutant: the working weight is returned with the warm-ups
returned_with_working(weights) == weights

\* return all_weights[:-1]
returned_warmups(weights) == SubSeq(weights, 1, Len(weights) - 1)

\* the value the body of the for loop leaves in all_weights[k]
adjusted_at(weights, k, bar, plates, maxinc) ==
    LET current == At(weights, k)
        nxt == At(weights, k + 1)
        prev == IF k > 0 THEN At(weights, k - 1) ELSE bar
    IN  IF ~needs_adjustment(current, nxt, bar, plates) THEN current
        ELSE LET adjusted == bar_only_adjusted(k, current, nxt, bar, plates, maxinc)
             IN  IF needs_search(k, adjusted, prev, nxt, bar, plates)
                 THEN searched_adjusted(current, prev, nxt, bar, plates)
                 ELSE IF adjusted < prev
                      THEN backward_adjusted(adjusted, prev, nxt, bar, plates)
                      ELSE adjusted

\* one run of the for loop from index k down to 0
RECURSIVE backward_pass(_, _, _, _, _)
backward_pass(weights, k, bar, plates, maxinc) ==
    IF k < 0 THEN weights
    ELSE backward_pass([weights EXCEPT ![k + 1] = adjusted_at(weights, k, bar, plates, maxinc)],
                       k - 1, bar, plates, maxinc)

\* the while loop from the pass after `it` passes: changed is true exactly
\* when the pass left a different list
RECURSIVE repair_passes(_, _, _, _, _)
repair_passes(weights, it, bar, plates, maxinc) ==
    LET after == backward_pass(weights, Len(weights) - 2, bar, plates, maxinc)
    IN  IF loop_continues(after # weights, it + 1)
        THEN repair_passes(after, it + 1, bar, plates, maxinc)
        ELSE after

\* the function as a whole, from its arguments to its return value
ensure_linear_warmup_progression(warmups, working, bar, plates, maxinc) ==
    IF warmups = <<>> THEN <<>>
    ELSE returned_warmups(repair_passes(warmups \o <<working>>, 0, bar, plates, maxinc))

-----------------------------------------------------------------------------
(* Inputs *)

MaxWarmups == 3
MaxStep == 10
MaxRoundStep == 34

\* total weights from 40 lb in steps of 5 lb
Grid(n) == {Lb(40) + Lb(5) * k : k \in 0..n}

IsSorted(s) == \A j \in 1..(Len(s) - 1) : s[j] <= s[j + 1]

\* warm-up lists "in order (lightest to heaviest)", the empty list included
WarmupLists ==
    UNION {{s \in [1..n -> Grid(MaxStep)] : IsSorted(s)} : n \in 0..MaxWarmups}

\* the plate inventories tried: the default one, one without the 2.5 and
\* 15 lb plates, and one that is not a canonical coin system
PlateInventories ==
    {DefaultPlates, {Lb(45), Lb(25), Lb(10), Lb(5)}, {Lb(20), Lb(15), Lb(5)}}

\* the calls of src/tests/test_warmup_progression.py, the bench-press
\* week-1 call of calc_sets for a 1RM of 250, and a call whose second warm-up
\* has no plate-additive weight within max_increase_per_warmup above it nor
\* within half of it below
ExampleCalls ==
    { [w |-> <<Lb(55), Lb(120)>>, ww |-> Lb(235), mi |-> Lb(10)],
      [w |-> <<Lb(85), Lb(135), Lb(185)>>, ww |-> Lb(210), mi |-> Lb(30)],
      [w |-> <<Lb(45), Lb(135), Lb(190), Lb(255)>>, ww |-> Lb(320), mi |-> Lb(80)],
      [w |-> <<Lb(45), Lb(135), Lb(165), Lb(175)>>, ww |-> Lb(180), mi |-> Lb(30)],
      [w |-> <<Lb(45), Lb(90), Lb(125), Lb(160)>>, ww |-> Lb(175), mi |-> 175] }

-----------------------------------------------------------------------------
(* ensure_linear_warmup_progression as a state machine *)

IdleRound ==
    /\ current_weight = 0
    /\ next_weight = 0
    /\ max_increase = 0

IdlePlates ==
    /\ total_weight = 0
    /\ plates_a = <<>>
    /\ plates_b = <<>>

IdleBreakdown ==
    /\ self_bar = FALSE
    /\ self_weight = 0
    /\ corrected_weight = 0
    /\ weight = 0
    /\ plate_count = <<>>

IdleOptimize ==
    /\ threshold = 0
    /\ next_total_weight = {}
    /\ big_plate_min = 0
    /\ big_plate_slack = 0

IdleCluster ==
    /\ exercise = ""
    /\ week_arg = 0
    /\ week = 0
    /\ week_multiplier = 0
    /\ label = 0
    /\ oneRepMax = 0
    /\ sets = <<>>

IdleEnsure ==
    /\ warmup_weights = <<>>
    /\ working_weight = 0
    /\ max_increase_per_warmup = 0
    /\ all_weights = <<>>
    /\ iteration = 0
    /\ changed = FALSE
    /\ i = 0

Init ==
    /\ pc = "ensure_call"
    /\ IdleBreakdown
    /\ IdleRound
    /\ IdlePlates
    /\ IdleOptimize
    /\ IdleCluster
    /\ bar_weight = Lb(45)
    /\ \/ /\ available_plates \in {DefaultPlates, {Lb(45), Lb(25), Lb(10), Lb(5)}}
          /\ warmup_weights \in WarmupLists
          /\ working_weight \in Grid(MaxStep)
          /\ max_increase_per_warmup \in {Lb(10), Lb(30)}
       \/ /\ available_plates = DefaultPlates
          /\ \E c \in ExampleCalls :
                /\ warmup_weights = c.w
                /\ working_weight = c.ww
                /\ max_increase_per_warmup = c.mi
    /\ all_weights = <<>>
    /\ iteration = 0
    /\ changed = FALSE
    /\ i = 0
    /\ ret = <<>>

\* mutant: the adjusted weight is written into the caller's list as well
callers_list_written(callers, locals) == SubSeq(locals, 1, Len(callers))

\* the caller's list after a write to all_weights: all_weights is built from
\* warmup_weights.copy(), a list of its own, so the caller's list stays as it is
callers_list_after(callers, locals) == callers

\* the empty-list return, else the copy, all_weights and the loop variables
EnsureEnter ==
    /\ pc = "ensure_call"
    /\ IF warmup_weights = <<>>
       THEN /\ ret' = <<>>
            /\ pc' = "done"
            /\ UNCHANGED <<all_weights, iteration, changed>>
       ELSE /\ all_weights' = warmup_weights \o <<working_weight>>
            /\ iteration' = 0
            /\ changed' = TRUE
            /\ pc' = "while"
            /\ ret' = ret
    /\ UNCHANGED <<bar_weight, available_plates, roundVars, plateVars, breakdownVars, optVars, callVars, i, clusterVars>>

\* while changed and iteration < max_iterations: a new backward pass begins
WhileEnter ==
    /\ pc = "while"
    /\ loop_continues(changed, iteration)
    /\ changed' = FALSE
    /\ iteration' = iteration + 1
    /\ i' = Len(all_weights) - 2
    /\ pc' = "for"
    /\ UNCHANGED <<bar_weight, available_plates, roundVars, plateVars, breakdownVars, optVars, callVars,
                   all_weights, ret, clusterVars>>

\* one iteration of for i in range(len(all_weights) - 2, -1, -1)
ForBody ==
    /\ pc = "for"
    /\ LET adjusted == adjusted_at(all_weights, i, bar_weight, available_plates,
                                   max_increase_per_warmup)
       IN  IF adjusted # At(all_weights, i)
           THEN /\ all_weights' = [all_weights EXCEPT ![i + 1] = adjusted]
                /\ changed' = TRUE
           ELSE UNCHANGED <<all_weights, changed>>
    /\ IF i > 0
       THEN i' = i - 1 /\ pc' = "for"
       ELSE i' = i /\ pc' = "while"
    /\ warmup_weights' = callers_list_after(warmup_weights, all_weights')
    /\ UNCHANGED <<bar_weight, available_plates, roundVars, plateVars, breakdownVars, optVars,
                   working_weight, max_increase_per_warmup, iteration, ret, clusterVars>>

\* the loop ends: return all_weights[:-1]
WhileExit ==
    /\ pc = "while"
    /\ ~loop_continues(changed, iteration)
    /\ ret' = returned_warmups(all_weights)
    /\ pc' = "done"
    /\ UNCHANGED <<bar_weight, available_plates, roundVars, plateVars, breakdownVars, optVars, callVars,
                   all_weights, iteration, changed, i, clusterVars>>

Next ==
    \/ EnsureEnter
    \/ WhileEnter
    \/ ForBody
    \/ WhileExit

Spec == Init /\ [][Next]_vars

-----------------------------------------------------------------------------
(* round_up_to_valid_progression called on its own *)

InitRound ==
    /\ pc = "round_call"
    /\ IdleBreakdown
    /\ IdlePlates
    /\ IdleOptimize
    /\ IdleEnsure
    /\ IdleCluster
    /\ bar_weight \in {Lb(45), Lb(35)}
    /\ available_plates \in PlateInventories
    /\ current_weight \in Grid(MaxRoundStep)
    /\ next_weight \in Grid(MaxRoundStep)
    /\ max_increase \in {0, Lb(20), Lb(30)}
    /\ ret = <<>>

RoundCall ==
    /\ pc = "round_call"
    /\ ret' = round_up_to_valid_progression(current_weight, next_weight, bar_weight,
                                            available_plates, max_increase)
    /\ pc' = "round_done"
    /\ UNCHANGED <<bar_weight, available_plates, roundVars, plateVars, breakdownVars, optVars, callVars,
                   all_weights, iteration, changed, i, clusterVars>>

NextRound == RoundCall

SpecRound == InitRound /\ [][NextRound]_vars

-----------------------------------------------------------------------------
(* get_plate_list called on its own *)

MaxTotal == 420

\* total weights in whole pounds
WholePounds(n) == {Lb(k) : k \in 0..n}

InitPlates ==
    /\ pc = "plates_call"
    /\ IdleBreakdown
    /\ IdleRound
    /\ IdleOptimize
    /\ IdleEnsure
    /\ IdleCluster
    /\ bar_weight \in {Lb(45), Lb(35)}
    /\ available_plates \in PlateInventories
    /\ total_weight \in WholePounds(MaxTotal)
    /\ plates_a = <<>>
    /\ plates_b = <<>>
    /\ ret = <<>>

GetPlateListCall ==
    /\ pc = "plates_call"
    /\ ret' = get_plate_list(total_weight, bar_weight, available_plates)
    /\ pc' = "plates_done"
    /\ UNCHANGED <<bar_weight, available_plates, roundVars, plateVars, breakdownVars, optVars, callVars,
                   all_weights, iteration, changed, i, clusterVars>>

NextPlates == GetPlateListCall

SpecPlates == InitPlates /\ [][NextPlates]_vars

-----------------------------------------------------------------------------
(* plates_are_subset called on its own *)

MaxPlateListLen == 3

\* the denominations of the plate lists tried
ListedPlates == {Lb(45), Lb(35), Lb(25), Lb(15)}

\* plate lists in any order, the empty list included
PlateLists == UNION {[1..n -> ListedPlates] : n \in 0..MaxPlateListLen}

InitSubset ==
    /\ pc = "subset_call"
    /\ IdleBreakdown
    /\ IdleRound
    /\ IdleOptimize
    /\ IdleEnsure
    /\ IdleCluster
    /\ bar_weight = Lb(45)
    /\ available_plates = DefaultPlates
    /\ total_weight = 0
    /\ plates_a \in PlateLists
    /\ plates_b \in PlateLists
    /\ ret = <<>>

PlatesAreSubsetCall ==
    /\ pc = "subset_call"
    /\ ret' = plates_are_subset(plates_a, plates_b)
    /\ pc' = "subset_done"
    /\ UNCHANGED <<bar_weight, available_plates, roundVars, plateVars, breakdownVars, optVars, callVars,
                   all_weights, iteration, changed, i, clusterVars>>

NextSubset == PlatesAreSubsetCall

SpecSubset == InitSubset /\ [][NextSubset]_vars

-----------------------------------------------------------------------------
(* optimize_warmup_weight called on its own *)

MaxOptTotal == 300
MaxOptStep == 37

\* without next_total_weight the total is any whole number of pounds; with
\* it (0 included, which the code takes as absent) both lie on the 5 lb grid
InitOptimize ==
    /\ pc = "optimize_call"
    /\ IdleBreakdown
    /\ IdleRound
    /\ IdleEnsure
    /\ IdleCluster
    /\ bar_weight = Lb(45)
    /\ available_plates \in {DefaultPlates, {Lb(45), Lb(25), Lb(10), Lb(5)}}
    /\ \/ /\ next_total_weight = {}
          /\ total_weight \in WholePounds(MaxOptTotal)
       \/ /\ next_total_weight \in {{n} : n \in Grid(MaxOptStep) \cup {0}}
          /\ total_weight \in Grid(MaxOptStep)
    /\ plates_a = <<>>
    /\ plates_b = <<>>
    /\ threshold \in {10, 8}
    /\ big_plate_min \in {Lb(45), Lb(10)}
    /\ big_plate_slack \in {Lb(10), Lb(5)}
    /\ ret = <<>>

OptimizeCall ==
    /\ pc = "optimize_call"
    /\ ret' = optimize_warmup_weight(total_weight, bar_weight, available_plates, threshold,
                                     next_total_weight, big_plate_min, big_plate_slack)
    /\ pc' = "optimize_done"
    /\ UNCHANGED <<bar_weight, available_plates, roundVars, plateVars, breakdownVars, optVars, callVars,
                   all_weights, iteration, changed, i, clusterVars>>

NextOptimize == OptimizeCall

SpecOptimize == InitOptimize /\ [][NextOptimize]_vars

-----------------------------------------------------------------------------
(* ExerciseCluster: the week setter and calc_sets for the barbell profiles *)

MaxOneRepMax == 460

\* EXERCISE_PROFILES of kind "barbell", by warm-up scheme
SquatBenchExercises ==
    {"squat", "front squat", "zercher squat", "bench press", "overhead press"}

DeadliftExercises == {"deadlift", "zercher deadlift", "trap bar deadlift", "rdl"}

BarbellExercises == SquatBenchExercises \cup DeadliftExercises

\* _build_warmup_sets: the multipliers of the warm-up sets, in percent
warmup_multipliers(ex) ==
    IF ex \in {"bench press", "overhead press"} THEN <<0, 50, 70, 90>>
    ELSE IF ex \in SquatBenchExercises THEN <<0, 40, 60, 80>>
    ELSE IF ex \in DeadliftExercises THEN <<40, 60, 85>>
    ELSE <<>>

\* _build_top_sets: one top set of multiplier 1.0 for every week and scheme
top_multipliers(ex) == IF ex \in BarbellExercises THEN <<100>> ELSE <<>>

\* mutant: the multipliers in ascending order
multipliers_ascending == [w \in 1..6 |-> <<70, 75, 80, 85, 90, 95>>[w]]

\* the multipliers of the week setter, in percent
multipliers == [w \in 1..6 |-> <<70, 80, 90, 75, 85, 95>>[w]]

\* the float product n * 0.7 falls just below the tie n*0.7/5 = k + 0.5 for
\* these n (325 * 0.7 = 227.49999999999997); every other product of an
\* integer up to 1000 by a multiplier of the program rounds as the exact one
float_below_tie(n, pct) == pct = 70 /\ n \in {325, 725}

\* ExerciseSet.round_weight(n * pct/100) = int(5 * round(n * pct/100 / 5)),
\* Python's round taking a tie to the even integer; n and the result in pounds
round_weight_of_product(n, pct) ==
    LET num == n * pct
        fl == num \div 500
        r == num % 500
    IN  5 * (IF r > 250 THEN fl + 1
             ELSE IF r < 250 THEN fl
             ELSE IF float_below_tie(n, pct) THEN fl
             ELSE IF fl % 2 = 0 THEN fl ELSE fl + 1)

\* ExerciseSet.round_weight of a weight in whole pounds
round_weight(w) == Lb(round_weight_of_product(w \div 4, 100))

\* the property working_weight, in pounds
cluster_working_weight(orm, wm) == round_weight_of_product(orm, wm)

\* calc_lifting_weight: the weight of a set, bar_weight when it rounds to 0
calc_lifting_weight(ww, pct, bar) ==
    LET w == round_weight_of_product(ww, pct)
    IN  IF w = 0 THEN bar ELSE Lb(w)

\* the first pass of calc_sets: the raw weight of every set of setdefs
built_weights(ex, orm, wm, bar) ==
    LET setdefs == warmup_multipliers(ex) \o top_multipliers(ex)
    IN  [j \in 1..Len(setdefs) |->
            calc_lifting_weight(cluster_working_weight(orm, wm), setdefs[j], bar)]

\* max_increase = max(30.0, working_weight * max_pct_increase), 0.25 of a
\* weight written in quarter pounds being the weight divided by 4
cluster_max_increase(ww) == IF ww \div 4 > Lb(30) THEN ww \div 4 ELSE Lb(30)

InitCluster ==
    /\ pc = "cluster_new"
    /\ IdleBreakdown
    /\ IdleRound
    /\ IdlePlates
    /\ IdleOptimize
    /\ IdleEnsure
    /\ bar_weight = Lb(45)
    /\ available_plates = DefaultPlates
    /\ exercise \in BarbellExercises \cup {"does_not_exist"}
    /\ week_arg \in 0..7
    /\ oneRepMax \in 0..MaxOneRepMax
    /\ week = 0
    /\ week_multiplier = 0
    /\ label = 0
    /\ sets = <<>>
    /\ ret = <<>>

\* __init__ up to the call of calc_sets, with the week setter
ClusterNew ==
    /\ pc = "cluster_new"
    /\ week' = IF week_arg \in 1..6 THEN week_arg ELSE 1
    /\ week_multiplier' = multipliers[week']
    /\ label' = week_multiplier'
    /\ sets' = <<>>
    /\ pc' = "calc_sets"
    /\ UNCHANGED <<bar_weight, available_plates, roundVars, plateVars, breakdownVars, optVars, callVars,
                   all_weights, iteration, changed, i, ret,
                   exercise, week_arg, oneRepMax>>

\* calc_sets up to the call of ensure_linear_warmup_progression; the keyword
\* bar_label of the ExerciseSet call carries no weight and is left out
CalcSetsBuild ==
    /\ pc = "calc_sets"
    /\ LET built == built_weights(exercise, oneRepMax, week_multiplier, bar_weight)
           n == Len(warmup_multipliers(exercise))
       IN  /\ sets' = built
           /\ IF exercise \in BarbellExercises /\ n > 0 /\ built[n + 1] # 0
              THEN /\ warmup_weights' = SubSeq(built, 1, n)
                   /\ working_weight' = built[n + 1]
                   /\ max_increase_per_warmup' = cluster_max_increase(built[n + 1])
                   /\ pc' = "ensure_call"
              ELSE /\ UNCHANGED callVars
                   /\ pc' = "cluster_done"
    /\ UNCHANGED <<bar_weight, available_plates, roundVars, plateVars, breakdownVars, optVars,
                   all_weights, iteration, changed, i, ret,
                   exercise, week_arg, week, week_multiplier, label, oneRepMax>>

\* mutant: the adjusted weights are written one set too far
applied_sets_shifted(built, adjusted) ==
    [j \in 1..Len(built) |->
        IF j > 1 /\ j - 1 <= Len(adjusted) THEN adjusted[j - 1] ELSE built[j]]

\* built_sets[idx].weight = adjusted_weight over zip(warmup_indices,
\* adjusted_warmups), the warm-ups being the leading sets
applied_sets(built, adjusted) ==
    [j \in 1..Len(built) |-> IF j <= Len(adjusted) THEN adjusted[j] ELSE built[j]]

\* the adjusted warm-ups are written back to the sets
CalcSetsApply ==
    /\ pc = "done"
    /\ sets' = applied_sets(sets, ret)
    /\ pc' = "cluster_done"
    /\ UNCHANGED <<bar_weight, available_plates, roundVars, plateVars, breakdownVars, optVars, callVars,
                   all_weights, iteration, changed, i, ret,
                   exercise, week_arg, week, week_multiplier, label, oneRepMax>>

NextCluster ==
    \/ ClusterNew
    \/ CalcSetsBuild
    \/ EnsureEnter
    \/ WhileEnter
    \/ ForBody
    \/ WhileExit
    \/ CalcSetsApply

SpecCluster == InitCluster /\ [][NextCluster]_vars

-----------------------------------------------------------------------------
(* ExerciseSet.calc_plate_breakdown as a state machine *)

MaxSetWeight == 400
MaxBelowZero == 10

\* the bar weights tried: the default, a 35 lb bar and a 20 kg bar entered
\* as 44 lb
BarWeights == {Lb(45), Lb(35), Lb(44)}

\* sorted(available_plates, reverse=True)
RECURSIVE sorted_descending(_)
sorted_descending(S) ==
    IF S = {} THEN <<>>
    ELSE <<Max(S)>> \o sorted_descending(S \ {Max(S)})

\* the local plates of calc_plate_breakdown
breakdown_plates == sorted_descending(available_plates)

\* mutant: the load of a barbell set is not halved
breakdown_load_both_sides(uses_bar, corrected, bar) ==
    IF corrected > bar /\ uses_bar THEN corrected - bar ELSE corrected

\* the local weight before the loops: the bar is subtracted when the set uses
\* one and the rounded weight is above it, and a barbell load is halved
breakdown_load(uses_bar, corrected, bar) ==
    LET unloaded == IF corrected > bar /\ uses_bar THEN corrected - bar ELSE corrected
    IN  IF uses_bar THEN unloaded \div 2 ELSE unloaded

\* "%s" % v of a plate: 45 for the int 45, 2.5 for the float 2.5
plate_text(v) ==
    ToString(v \div 4) \o (CASE v % 4 = 0 -> ""
                             [] v % 4 = 1 -> ".25"
                             [] v % 4 = 2 -> ".5"
                             [] v % 4 = 3 -> ".75")

\* the loop building final_string from plate_count, from index k on
RECURSIVE plates_string(_, _, _)
plates_string(plates, counts, k) ==
    IF k > Len(plates) THEN ""
    ELSE (IF counts[k] > 1
             THEN "(" \o plate_text(plates[k]) \o " x " \o ToString(counts[k]) \o ") "
          ELSE IF counts[k] = 1 THEN plate_text(plates[k]) \o " "
          ELSE "")
         \o plates_string(plates, counts, k + 1)

\* str.strip() on a string whose only whitespace is the space
RECURSIVE strip(_)
strip(str) ==
    IF str = "" THEN ""
    ELSE IF SubSeq(str, 1, 1) = " " THEN strip(SubSeq(str, 2, Len(str)))
    ELSE IF SubSeq(str, Len(str), Len(str)) = " " THEN strip(SubSeq(str, 1, Len(str) - 1))
    ELSE str

\* final_string after the labels replaced the listing
final_string(uses_bar, corrected, bar, listing) ==
    IF ~uses_bar /\ corrected <= 0 THEN "Bodyweight"
    ELSE IF uses_bar /\ corrected <= bar THEN "Bar"
    ELSE listing

InitBreakdown ==
    /\ pc = "breakdown_call"
    /\ IdleRound
    /\ IdlePlates
    /\ IdleOptimize
    /\ IdleEnsure
    /\ IdleCluster
    /\ bar_weight \in BarWeights
    /\ available_plates \in PlateInventories
    /\ self_bar \in BOOLEAN
    /\ self_weight \in {Lb(k) : k \in (0 - MaxBelowZero)..MaxSetWeight}
    /\ corrected_weight = 0
    /\ weight = 0
    /\ plate_count = <<>>
    /\ ret = ""

\* corrected_weight, plate_count and the local weight before the loops
BreakdownEnter ==
    /\ pc = "breakdown_call"
    /\ corrected_weight' = round_weight(self_weight)
    /\ weight' = breakdown_load(self_bar, corrected_weight', bar_weight)
    /\ plate_count' = [k \in 1..Len(breakdown_plates) |-> 0]
    /\ pc' = "breakdown_while"
    /\ UNCHANGED <<bar_weight, available_plates, roundVars, plateVars, self_bar, self_weight,
                   optVars, callVars, all_weights, iteration, changed, i, ret, clusterVars>>

\* the test of `while weight > 0`
BreakdownWhile ==
    /\ pc = "breakdown_while"
    /\ IF weight > 0
       THEN pc' = "breakdown_for" /\ i' = 0
       ELSE pc' = "breakdown_string" /\ i' = i
    /\ UNCHANGED <<bar_weight, available_plates, roundVars, plateVars, breakdownVars,
                   optVars, callVars, all_weights, iteration, changed, ret, clusterVars>>

\* one round of `for i, v in enumerate(plates)` with its inner while
BreakdownFor ==
    /\ pc = "breakdown_for"
    /\ LET v == breakdown_plates[i + 1]
           taken == IF weight >= v THEN weight \div v ELSE 0
       IN  /\ plate_count' = [plate_count EXCEPT ![i + 1] = @ + taken]
           /\ weight' = weight - taken * v
    /\ IF i + 1 < Len(breakdown_plates)
       THEN i' = i + 1 /\ pc' = "breakdown_for"
       ELSE i' = i /\ pc' = "breakdown_while"
    /\ UNCHANGED <<bar_weight, available_plates, roundVars, plateVars, self_bar, self_weight,
                   corrected_weight, optVars, callVars, all_weights, iteration, changed, ret,
                   clusterVars>>

\* the string built from plate_count, the labels, the return
BreakdownReturn ==
    /\ pc = "breakdown_string"
    /\ ret' = strip(final_string(self_bar, corrected_weight, bar_weight,
                                 plates_string(breakdown_plates, plate_count, 1)))
    /\ pc' = "breakdown_done"
    /\ UNCHANGED <<bar_weight, available_plates, roundVars, plateVars, breakdownVars,
                   optVars, callVars, all_weights, iteration, changed, i, clusterVars>>

NextBreakdown ==
    \/ BreakdownEnter
    \/ BreakdownWhile
    \/ BreakdownFor
    \/ BreakdownReturn

SpecBreakdown == InitBreakdown /\ [][NextBreakdown]_vars

-----------------------------------------------------------------------------
(* Properties of round_up_to_valid_progression (SpecRound) *)

RECURSIVE SumAt(_, _)
SumAt(L, I) ==
    IF I = {} THEN 0
    ELSE LET j == CHOOSE x \in I : TRUE IN L[j] + SumAt(L, I \ {j})

\* the total weights bar + 2*sum of the sub-multisets of a per-side plate list
SubMultisetWeights(L, bar) == {bar + 2 * SumAt(L, I) : I \in SUBSET (1..Len(L))}

NextSubWeights == SubMultisetWeights(get_plate_list(next_weight, bar_weight, available_plates), bar_weight)

\* the sub-multiset weights c with current <= c < next and c - current <= max_increase
UpwardFits ==
    {c \in NextSubWeights :
        c >= current_weight /\ c < next_weight /\ c - current_weight <= max_increase}

\* the sub-multiset weights t below current and next, at least half of current or bar-only
DownwardFits ==
    {t \in NextSubWeights :
        /\ t < current_weight
        /\ t < next_weight
        /\ (2 * t >= current_weight \/ t = bar_weight)}

RoundDone == pc = "round_done"

CurrentAdditive == PlateAdditive(current_weight, next_weight, bar_weight, available_plates)

\* C5: round_up_to_valid_progression returns current unchanged whenever
\* get_plate_list(current) is already a sub-multiset of get_plate_list(next).
C5_AlreadyValidUnchanged == (RoundDone /\ CurrentAdditive) => ret = current_weight

C5_Witness ==
    /\ RoundDone
    /\ current_weight = Lb(135) /\ next_weight = Lb(185) /\ bar_weight = Lb(45)
    /\ available_plates = DefaultPlates
    /\ CurrentAdditive
    /\ ret = Lb(135)

\* C6: when current is not plate-additive toward next and some sub-multiset
\* weight c of next's plates has current <= c < next and c - current <=
\* max_increase, the result is the smallest such c; a weight below current is
\* returned only when no such c exists.
C6_SmallestUpwardFit ==
    RoundDone =>
        /\ (~CurrentAdditive /\ UpwardFits # {}) => ret = Min(UpwardFits)
        /\ ret < current_weight => UpwardFits = {}

C6_Witness ==
    /\ RoundDone
    /\ current_weight = Lb(185) /\ next_weight = Lb(210) /\ bar_weight = Lb(45)
    /\ available_plates = DefaultPlates /\ max_increase = Lb(30)
    /\ ~CurrentAdditive
    /\ Cardinality(UpwardFits) >= 1
    /\ ret = Lb(205)

\* C7: when no sub-multiset of next's plates gives a weight within
\* max_increase above current (and below next), the result is current
\* unchanged (85 toward 135 with bar 45 and max_increase 20 gives 85).
C7_NoFitKeepsCurrent == (RoundDone /\ UpwardFits = {}) => ret = current_weight

C8_WitnessUnchanged ==
    /\ RoundDone /\ ~CurrentAdditive /\ UpwardFits = {} /\ DownwardFits = {}
    /\ ret = current_weight

\* C9: the result never exceeds current + max_increase.
C9_BoundedIncrease == RoundDone => ret <= current_weight + max_increase

\* a sub-multiset weight between current and next lies beyond max_increase,
\* and the rounder did not take it
C9_Witness ==
    /\ RoundDone /\ ~CurrentAdditive
    /\ \E c \in NextSubWeights :
          c >= current_weight /\ c < next_weight /\ c > current_weight + max_increase
    /\ ret # current_weight

\* C10: a result r different from current is plate-additive toward next: the
\* greedy decomposition of r weighs exactly r and is a sub-multiset of the
\* greedy decomposition of next.
C10_ResultAdditive ==
    (RoundDone /\ ret # current_weight) =>
        LET r_plates == get_plate_list(ret, bar_weight, available_plates)
        IN  /\ plates_are_subset(r_plates, get_plate_list(next_weight, bar_weight, available_plates))
            /\ bar_weight + 2 * Sum(r_plates) = ret

\* a result above the bar, with an inventory that is not a canonical coin system
C10_Witness ==
    /\ RoundDone /\ ret # current_weight /\ ret > bar_weight
    /\ available_plates = {Lb(20), Lb(15), Lb(5)}
    /\ Len(get_plate_list(ret, bar_weight, available_plates)) >= 2

-----------------------------------------------------------------------------
(* Properties of ensure_linear_warmup_progression (Spec) *)

EnsureDone == pc = "done"

\* the returned warm-ups followed by the working weight
ResultChain == ret \o <<working_weight>>

\* C1: every adjacent pair of the returned list followed by the working
\* weight is plate-additive: get_plate_list of the earlier weight is a
\* sub-multiset of get_plate_list of the later one.
C1_SubsetInvariant ==
    EnsureDone =>
        \A j \in 1..Len(ret) :
            PlateAdditive(ResultChain[j], ResultChain[j + 1], bar_weight, available_plates)

\* C3: for a warm-up list ordered lightest to heaviest whose last element does
\* not exceed the working weight, the returned list followed by the working
\* weight is non-decreasing.
C3_Monotonic ==
    (/\ EnsureDone
     /\ IsSorted(warmup_weights \o <<working_weight>>)) =>
        IsSorted(ResultChain)

\* an ordered input of three warm-ups of which one was raised and one lowered
C3_Witness ==
    /\ EnsureDone
    /\ Len(warmup_weights) = 3
    /\ IsSorted(warmup_weights \o <<working_weight>>)
    /\ \E j \in 1..3 : ret[j] > warmup_weights[j]
    /\ \E j \in 1..3 : ret[j] < warmup_weights[j]
    /\ IsSorted(ResultChain)

\* C4: no returned warm-up exceeds the original warm-up at its index by more
\* than max_increase_per_warmup.
C4_BoundedIncrease ==
    EnsureDone =>
        \A j \in 1..Len(ret) : ret[j] - warmup_weights[j] <= max_increase_per_warmup

\* C14: the returned list has exactly the length of warmup_weights, an empty
\* warm-up list returns the empty list, and position i of the result is
\* position i of the input: all_weights is the input followed by the working
\* weight, and the loop only overwrites warm-up positions in place.
C14_SameLength ==
    /\ EnsureDone =>
          /\ Len(ret) = Len(warmup_weights)
          /\ warmup_weights = <<>> => ret = <<>>
    /\ pc \in {"while", "for"} =>
          /\ Len(all_weights) = Len(warmup_weights) + 1
          /\ all_weights[Len(all_weights)] = working_weight
    /\ (EnsureDone /\ warmup_weights # <<>>) =>
          ret = SubSeq(all_weights, 1, Len(warmup_weights))

\* three warm-ups, two of them adjusted, three returned
C14_Witness ==
    /\ EnsureDone
    /\ Len(warmup_weights) = 3
    /\ Len(ret) = 3
    /\ Cardinality({j \in 1..3 : ret[j] # warmup_weights[j]}) = 2

\* the warm-ups as given, followed by the working weight
InputChain == warmup_weights \o <<working_weight>>

\* C15: when every adjacent pair of warmup_weights + [working_weight] is
\* already plate-additive and non-decreasing, the warm-up weights are
\* returned unchanged.
C15_ValidUnchanged ==
    (/\ EnsureDone
     /\ \A j \in 1..Len(warmup_weights) :
            /\ InputChain[j] <= InputChain[j + 1]
            /\ PlateAdditive(InputChain[j], InputChain[j + 1], bar_weight, available_plates)) =>
        ret = warmup_weights

\* [45,135,165,175] with working weight 180, after the one pass of the loop
C15_Witness ==
    /\ EnsureDone
    /\ warmup_weights = <<Lb(45), Lb(135), Lb(165), Lb(175)>>
    /\ working_weight = Lb(180)
    /\ \A j \in 1..4 :
          PlateAdditive(InputChain[j], InputChain[j + 1], bar_weight, available_plates)
    /\ iteration = 1
    /\ ret = warmup_weights

\* the number of steps of one backward pass, with the test of the while
PassLength == Len(all_weights) + 1

\* a measure of the progress of a call: it counts the passes begun and the
\* positions of the current pass already processed
Rank ==
    CASE pc = "ensure_call" -> 0
      [] pc = "while" -> 1 + iteration * PassLength + Len(all_weights)
      [] pc = "for" -> 1 + iteration * PassLength + (Len(all_weights) - 2 - i)
      [] pc = "done" -> 2 + max_iterations * PassLength + Len(all_weights)
      [] OTHER -> 0

\* C24: the call terminates after at most 10 backward passes, and it stops
\* after the first pass in which no element was updated: the pass counter
\* never exceeds 10, every step of the call strictly raises a measure that is
\* bounded, and from the test of the while with changed false the only step
\* is the return.
C24_TerminatesWithinTenPasses ==
    /\ [](iteration <= 10 /\ Rank <= 2 + 10 * PassLength + Len(all_weights))
    /\ [][Rank' > Rank]_vars
    /\ [][(pc = "while" /\ ~changed) => pc' = "done"]_vars
    /\ [][pc' = "for" => (i' >= 0 /\ i' <= Len(all_weights') - 2)]_vars

\* a call that needed three passes: two that changed a weight, one that did not
C24_Witness ==
    /\ EnsureDone
    /\ iteration = 3
    /\ ~changed
    /\ ret # warmup_weights

\* C25: a warm-up that exceeds the next weight is clamped to that next weight,
\* so that after processing no warm-up exceeds the set that follows it, also
\* when the preceding warm-up is at or above the next weight.
C25_NoWarmupAboveNext ==
    EnsureDone => \A j \in 1..Len(ret) : ResultChain[j] <= ResultChain[j + 1]

\* the weights around position i as the for loop reads them
CurrentAtI == At(all_weights, i)

NextAtI == At(all_weights, i + 1)

PrevAtI == At(all_weights, i - 1)

\* the fix of the clamp or of the rounder for position i
FixAtI == first_adjusted(CurrentAtI, NextAtI, bar_weight, available_plates,
                         max_increase_per_warmup)

\* position i > 0 needs an adjustment and the fix found lies below the
\* previous warm-up
BackwardFixAtI ==
    /\ pc = "for" /\ i > 0
    /\ needs_adjustment(CurrentAtI, NextAtI, bar_weight, available_plates)
    /\ FixAtI # CurrentAtI
    /\ FixAtI < PrevAtI

\* C26: at an index i > 0 where the only plate-additive fix found lies below
\* the previous warm-up, position i is set to the previous warm-up's weight
\* when that warm-up's plates are a sub-multiset of the next weight's plates,
\* and to the backward value otherwise.
C26_PrevReused ==
    [][BackwardFixAtI =>
          At(all_weights', i) =
              IF PlateAdditive(PrevAtI, NextAtI, bar_weight, available_plates)
              THEN PrevAtI
              ELSE FixAtI]_vars

\* position i > 0 is given a new value by this step of the for loop
WrittenAtI == pc = "for" /\ i > 0 /\ At(all_weights', i) # CurrentAtI

StrictlyIncreasing(s) == \A j \in 1..(Len(s) - 1) : s[j] < s[j + 1]

NoDuplicates(s) == \A j, k \in 1..Len(s) : j # k => s[j] # s[k]

\* C27 as stated: every value written at an index i > 0 is strictly greater
\* than the warm-up before it and strictly less than the weight after it;
\* and for an input that is strictly increasing and below the working weight
\* the output has no duplicate weights and only its first warm-up can be
\* bar-only.
C27_WritesStrictlyBetween ==
    /\ [][WrittenAtI =>
             (PrevAtI < At(all_weights', i) /\ At(all_weights', i) < NextAtI)]_vars
    /\ [](EnsureDone /\ StrictlyIncreasing(InputChain) =>
             /\ NoDuplicates(ret)
             /\ \A j \in 2..Len(ret) : ret[j] > bar_weight)

\* C27 amended: every value written at an index i > 0 is strictly greater
\* than the warm-up before it and at most the weight after it, equal to it
\* only as the clamp of a warm-up that exceeded it; and for an input that is
\* strictly increasing, not below the bar weight and below the working weight
\* the output has no duplicate weights and only its first warm-up can be
\* bar-only.
C27_WritesAbovePrev ==
    /\ [][WrittenAtI =>
             /\ PrevAtI < At(all_weights', i)
             /\ At(all_weights', i) <= NextAtI
             /\ At(all_weights', i) = NextAtI => CurrentAtI > NextAtI]_vars
    /\ [](/\ EnsureDone
          /\ StrictlyIncreasing(InputChain)
          /\ \A j \in 1..Len(warmup_weights) : warmup_weights[j] >= bar_weight
          => /\ NoDuplicates(ret)
             /\ \A j \in 2..Len(ret) : ret[j] > bar_weight)

\* a strictly increasing input whose first warm-up became bar-only and whose
\* later warm-ups were rewritten
C27_Witness ==
    /\ EnsureDone
    /\ Len(warmup_weights) = 3
    /\ StrictlyIncreasing(InputChain)
    /\ warmup_weights[1] > bar_weight /\ ret[1] = bar_weight
    /\ ret[2] # warmup_weights[2] /\ ret[3] # warmup_weights[3]
    /\ NoDuplicates(ret)

\* the function applied to the list it returned, with the same other arguments
Reapplied ==
    ensure_linear_warmup_progression(ret, working_weight, bar_weight, available_plates,
                                     max_increase_per_warmup)

\* C28: ensure_linear_warmup_progression is idempotent: applied to its own
\* output with the same working weight, bar weight, plates and
\* max_increase_per_warmup it returns that output unchanged, and the loop was
\* left with changed false, not because of the cap.
C28_Idempotent ==
    EnsureDone =>
        /\ Reapplied = ret
        /\ warmup_weights # <<>> => ~changed

\* two passes changed weights, and the result is left as it is by a new call
C28_Witness ==
    /\ EnsureDone
    /\ iteration = 3
    /\ Cardinality({j \in 1..Len(ret) : ret[j] # warmup_weights[j]}) >= 2
    /\ Reapplied = ret

\* the state machine returns what the function computes as a whole
EnsureAgreesWithFunction ==
    EnsureDone =>
        ret = ensure_linear_warmup_progression(warmup_weights, working_weight, bar_weight,
                                               available_plates, max_increase_per_warmup)

\* C29: the call has no effect outside its return value: the caller's
\* warmup_weights list and the other arguments are never modified, and the
\* working weight at the end of all_weights is never written during a pass.
C29_NoSideEffects ==
    /\ [][/\ warmup_weights' = warmup_weights
          /\ working_weight' = working_weight
          /\ bar_weight' = bar_weight
          /\ available_plates' = available_plates
          /\ max_increase_per_warmup' = max_increase_per_warmup]_vars
    /\ [][pc = "for" =>
             /\ Len(all_weights') = Len(all_weights)
             /\ all_weights'[Len(all_weights')] = all_weights[Len(all_weights)]]_vars
    /\ [](all_weights # <<>> => all_weights[Len(all_weights)] = working_weight)

\* every warm-up of all_weights was rewritten; the caller's list is as it was
C29_Witness ==
    /\ EnsureDone
    /\ Len(warmup_weights) = 3
    /\ \A j \in 1..3 : all_weights[j] # warmup_weights[j]
    /\ ret = SubSeq(all_weights, 1, 3)
    /\ all_weights[4] = working_weight

-----------------------------------------------------------------------------
(* Properties of ExerciseCluster.calc_sets (SpecCluster) *)

ClusterDone == pc = "cluster_done"

\* C2: for every barbell exercise profile, every week and every 1RM, each set
\* weight of the cluster is plate-additive toward the weight of the set after it.
C2_ClusterChainAdditive ==
    (ClusterDone /\ exercise \in BarbellExercises) =>
        \A j \in 1..(Len(sets) - 1) :
            PlateAdditive(sets[j], sets[j + 1], bar_weight, DefaultPlates)

\* C19: for bench press, week 1, 1RM 345 the second warm-up (0.5 multiplier,
\* raw 120) weighs 135 after calc_sets, so that the 45s of the next set are
\* loaded early.
C19_BenchSecondWarmup135 ==
    (ClusterDone /\ exercise = "bench press" /\ week = 1 /\ oneRepMax = 345) =>
        sets[2] = Lb(135)

C22_WeekSetter ==
    pc # "cluster_new" =>
        /\ week_arg \in 1..6 =>
              /\ week = week_arg
              /\ week_multiplier = <<70, 80, 90, 75, 85, 95>>[week_arg]
        /\ week_arg \notin 1..6 => (week = 1 /\ week_multiplier = 70)
        /\ label = week_multiplier

\* week 7 was asked for: week 1, 0.70 and "70%" are stored, the sets are built
C22_Witness ==
    /\ ClusterDone
    /\ week_arg = 7
    /\ week = 1 /\ week_multiplier = 70 /\ label = 70
    /\ Len(sets) > 0

-----------------------------------------------------------------------------
(* Properties of get_plate_list (SpecPlates) *)

PlatesDone == pc = "plates_done"

\* the weight on the bar that a per-side plate list stands for
Reconstructed == bar_weight + 2 * Sum(ret)

\* C11 as stated: for every total weight w > bar_weight the plate list
\* reconstructs w rounded to the nearest 5:
\* bar_weight + 2 * sum(get_plate_list(w)) = round_to_5(w).
C11_RoundTripNearest5 ==
    (PlatesDone /\ total_weight > bar_weight) => Reconstructed = round_weight(total_weight)

\* C11 amended: for every total weight w > bar_weight the plate list
\* reconstructs w rounded down to bar_weight plus a multiple of twice the
\* smallest plate; it reconstructs w itself, and round_to_5(w) for a w that is
\* a multiple of 5, exactly when w - bar_weight is such a multiple.
C11_RoundTripDown ==
    (PlatesDone /\ total_weight > bar_weight) =>
        LET step == 2 * Min(available_plates)
            load == total_weight - bar_weight
        IN  /\ Reconstructed = bar_weight + step * (load \div step)
            /\ (load % step = 0) <=> (Reconstructed = total_weight)
            /\ (load % step = 0 /\ total_weight % Lb(5) = 0) =>
                    Reconstructed = round_weight(total_weight)

\* 400 with bar 45 gives [45,45,45,35,5,2.5]
C11_Witness ==
    /\ PlatesDone
    /\ total_weight = Lb(400) /\ bar_weight = Lb(45) /\ available_plates = DefaultPlates
    /\ ret = <<Lb(45), Lb(45), Lb(45), Lb(35), Lb(5), 10>>
    /\ Reconstructed = round_weight(total_weight)

\* the sums of at most n plates of an inventory, up to cap
RECURSIVE PlateSums(_, _, _)
PlateSums(plates, n, cap) ==
    IF n <= 0 THEN IF n = 0 THEN {0} ELSE {}
    ELSE LET fewer == PlateSums(plates, n - 1, cap)
         IN  fewer \cup {t \in {s + p : s \in fewer, p \in plates} : t <= cap}

\* C12: for the plate set {45,35,25,15,10,5,2.5} and every per-side load that
\* is a multiple of 2.5, the list of get_plate_list sums to the load and no
\* multiset of these plates with fewer plates sums to the same load.
C12_GreedyOptimal ==
    (/\ PlatesDone
     /\ available_plates = DefaultPlates
     /\ total_weight > bar_weight
     /\ (total_weight - bar_weight) % 20 = 0) =>
        LET load == (total_weight - bar_weight) \div 2
        IN  /\ Sum(ret) = load
            /\ load \notin PlateSums(DefaultPlates, Len(ret) - 1, load)

\* 65 per side: 45 + 15 + 5, where 35 + 25 + 5 is another list of three plates
C12_Witness ==
    /\ PlatesDone
    /\ available_plates = DefaultPlates /\ bar_weight = Lb(45)
    /\ total_weight = Lb(175)
    /\ ret = <<Lb(45), Lb(15), Lb(5)>>
    /\ Sum(ret) = Lb(35) + Lb(25) + Lb(5)
    /\ Sum(ret) \in PlateSums(DefaultPlates, 3, Sum(ret))

-----------------------------------------------------------------------------
(* Properties of plates_are_subset (SpecSubset) *)

SubsetDone == pc = "subset_done"

\* how many plates of a list have the denomination d
CountOf(plates_list, d) == Len(SelectSeq(plates_list, LAMBDA q : q = d))

\* C13: plates_are_subset(a, b) is true exactly when, for every denomination,
\* the count in a is at most the count in b; so the empty list is a subset of
\* every list and a list is a subset of itself.
C13_SubsetIffCounts ==
    SubsetDone =>
        /\ ret = (\A d \in ListedPlates : CountOf(plates_a, d) <= CountOf(plates_b, d))
        /\ plates_a = <<>> => ret = TRUE
        /\ plates_a = plates_b => ret = TRUE

\* [45,25] is not a subset of [45,35]
C13_Witness ==
    /\ SubsetDone
    /\ plates_a = <<Lb(45), Lb(25)>>
    /\ plates_b = <<Lb(45), Lb(35)>>
    /\ ret = FALSE

-----------------------------------------------------------------------------
(* Properties of optimize_warmup_weight (SpecOptimize) *)

OptimizeDone == pc = "optimize_done"

\* the per-side load of the call
PerSide == (total_weight - bar_weight) \div 2

\* what is left of the per-side load once the largest plates are peeled off
Peeled == Max(available_plates) * (PerSide \div Max(available_plates))

Remainder == PerSide - Peeled

\* the smallest available plate p >= remainder
SmallestFit == Min({p \in available_plates : p >= Remainder})

\* C16 as stated: without next_total_weight, a total <= bar_weight is returned
\* unchanged; otherwise, if the smallest available plate p >= remainder has
\* p - remainder <= threshold the result is bar_weight + 2*(peeled + p), else
\* total_weight unchanged.
C16_ClutterAsStated ==
    (OptimizeDone /\ next_total_weight = {}) =>
        IF total_weight <= bar_weight THEN ret = total_weight
        ELSE IF SmallestFit - Remainder <= threshold
             THEN ret = bar_weight + 2 * (Peeled + SmallestFit)
             ELSE ret = total_weight

\* C16 amended: the same, where the plate p is taken only for a remainder > 0;
\* a per-side load that the largest plates cover exactly is returned unchanged.
C16_ClutterPositiveRemainder ==
    (OptimizeDone /\ next_total_weight = {}) =>
        IF total_weight <= bar_weight THEN ret = total_weight
        ELSE IF Remainder > 0 /\ SmallestFit - Remainder <= threshold
             THEN ret = bar_weight + 2 * (Peeled + SmallestFit)
             ELSE ret = total_weight

\* 180 -> 185: one 45 peeled off, the remainder 22.5 replaced by a 25
C16_Witness ==
    /\ OptimizeDone /\ next_total_weight = {}
    /\ total_weight = Lb(180) /\ bar_weight = Lb(45) /\ available_plates = DefaultPlates
    /\ threshold = 10
    /\ Peeled = Lb(45) /\ Remainder = 90 /\ SmallestFit = Lb(25)
    /\ ret = Lb(185)

\* the plates >= big_plate_min that the next set's per-side load admits
BigPlates ==
    {p \in available_plates :
        p >= big_plate_min /\ \E n \in next_total_weight : 2 * p <= n - bar_weight}

\* the current per-side load lies in [P - big_plate_slack, P) for the next
\* set's big plate P
NearBigPlate ==
    /\ BigPlates # {}
    /\ Max(BigPlates) - big_plate_slack <= PerSide
    /\ PerSide < Max(BigPlates)

\* C17 as stated: when next_total_weight's per-side load admits a plate
\* P >= big_plate_min and the current per-side load lies in
\* [P - big_plate_slack, P), the result is bar_weight + 2*P and is
\* plate-additive toward next_total_weight.
C17_PreloadAsStated ==
    (OptimizeDone /\ NearBigPlate) =>
        /\ ret = bar_weight + 2 * Max(BigPlates)
        /\ \A n \in next_total_weight : PlateAdditive(ret, n, bar_weight, available_plates)

\* C17 amended: the same for a total_weight above bar_weight; a total at or
\* below the bar is returned unchanged before the big plate is looked at.
C17_PreloadAboveBar ==
    (OptimizeDone /\ NearBigPlate /\ total_weight > bar_weight) =>
        /\ ret = bar_weight + 2 * Max(BigPlates)
        /\ \A n \in next_total_weight : PlateAdditive(ret, n, bar_weight, available_plates)

\* 120 with next 165 returns 135, where the clutter reduction leaves 120
C17_Witness ==
    /\ OptimizeDone
    /\ total_weight = Lb(120) /\ next_total_weight = {Lb(165)}
    /\ bar_weight = Lb(45) /\ available_plates = DefaultPlates
    /\ big_plate_min = Lb(45) /\ big_plate_slack = Lb(10) /\ threshold = 10
    /\ NearBigPlate
    /\ clutter_optimized(total_weight, bar_weight, available_plates, threshold) = Lb(120)
    /\ ret = Lb(135)

\* C18: when the next set's big plate is more than big_plate_slack per side
\* above the current per-side load and no clutter reduction applies, the
\* weight is returned unchanged (95 with next_total_weight 225 returns 95).
C18_TooFarUnchanged ==
    (/\ OptimizeDone
     /\ total_weight > bar_weight
     /\ BigPlates # {}
     /\ Max(BigPlates) - PerSide > big_plate_slack
     /\ (Remainder = 0 \/ SmallestFit = Remainder \/ SmallestFit - Remainder > threshold)) =>
        ret = total_weight

-----------------------------------------------------------------------------
(* Properties of ExerciseSet.calc_plate_breakdown (SpecBreakdown) *)

BreakdownDone == pc = "breakdown_done"

\* the weight of the plates counted in plate_count
ListedLoad ==
    Sum([k \in 1..Len(plate_count) |-> plate_count[k] * breakdown_plates[k]])

\* what a returned breakdown is: "Bar" exactly when the set uses a bar and
\* its weight rounded to 5 is at most the bar's, "Bodyweight" exactly when it
\* uses no bar and the rounded weight is at most 0, and otherwise the listing
\* of the plates of one side, which weigh half of what is above the bar with
\* a bar and the whole rounded weight without one
LabelsOnReturn ==
    BreakdownDone =>
        LET rounded == round_weight(self_weight)
            is_bar == self_bar /\ rounded <= bar_weight
            is_bodyweight == ~self_bar /\ rounded <= 0
        IN  /\ (ret = "Bar") <=> is_bar
            /\ (ret = "Bodyweight") <=> is_bodyweight
            /\ ~(is_bar \/ is_bodyweight) =>
                   /\ ret = strip(plates_string(breakdown_plates, plate_count, 1))
                   /\ ret # ""
                   /\ ListedLoad = IF self_bar THEN (rounded - bar_weight) \div 2
                                   ELSE rounded
            /\ (~self_bar /\ self_weight = Lb(105) /\ available_plates = DefaultPlates)
                   => ret = "(45 x 2) 15"
            /\ (self_bar /\ self_weight = Lb(400) /\ bar_weight = Lb(45)
                  /\ available_plates = DefaultPlates)
                   => ret = "(45 x 3) 35 5 2.5"

\* the call is on its way to a result: at the test of its loop the remainder
\* is used up or some plate still fits
HasResult ==
    (pc = "breakdown_while" /\ weight > 0) => weight >= Min(available_plates)

\* C21: calc_plate_breakdown has a result for every set, and the result is
\* "Bar" exactly when the set uses a bar and round_to_5(weight) <= bar_weight
\* (negative weights included), "Bodyweight" exactly when it uses no bar and
\* round_to_5(weight) <= 0, and otherwise the per-side plate listing, without
\* bar subtraction or halving when no bar is used (105 -> "(45 x 2) 15").
C21_BoundaryLabels == HasResult /\ LabelsOnReturn

\* C23: calc_plate_breakdown stops as soon as the per-side remainder is 0 or
\* smaller than the smallest available plate: at the test of its outer loop
\* with such a remainder the loop is left.
C23_StopsBelowSmallestPlate ==
    [][(pc = "breakdown_while" /\ weight < Min(available_plates))
           => pc' = "breakdown_string"]_vars

\* C30: for a barbell set whose weight is a multiple of 5 above the bar, a
\* returned breakdown counts, plate by plate, what get_plate_list returns for
\* the same weight, bar and inventory, and is the rendering of that list.
C30_DecomposersAgree ==
    (BreakdownDone /\ self_bar /\ self_weight % Lb(5) = 0 /\ self_weight > bar_weight) =>
        LET listed == get_plate_list(self_weight, bar_weight, available_plates)
            counted == [k \in 1..Len(breakdown_plates) |-> Count(listed, breakdown_plates[k])]
        IN  /\ plate_count = counted
            /\ ret = strip(plates_string(breakdown_plates, counted, 1))
            /\ Len(listed) = Sum(plate_count)

\* 225 on a 45 lb bar with the plates 20, 15 and 5: four 20s and two 5s
C30_Witness ==
    /\ BreakdownDone
    /\ self_bar
    /\ self_weight = Lb(225)
    /\ bar_weight = Lb(45)
    /\ available_plates = {Lb(20), Lb(15), Lb(5)}
    /\ ret = "(20 x 4) (5 x 2)"
    /\ get_plate_list(self_weight, bar_weight, available_plates)
           = <<Lb(20), Lb(20), Lb(20), Lb(20), Lb(5), Lb(5)>>

=============================================================================
